---------------------------- MODULE Spec2Model ----------------------------
(***************************************************************************)
(* Student-loan repayment simulation (src/python/model.py).                *)
(*                                                                         *)
(* Monetary amounts and rates are Python floats in the source.  The model  *)
(* computes with the same IEEE 754 binary64 values and rounds every        *)
(* operation as the source does, so that a balance the rounding leaves     *)
(* just above zero, and what interest makes of it, is the balance of the   *)
(* source.  An int argument of the source is the float of the same value.  *)
(* Dates are datetime values: records [year, month, day, hour] compared    *)
(* lexicographically; datetime(y, m, d) has hour 0.                        *)
(***************************************************************************)
EXTENDS Integers, Sequences, FiniteSets, TLC

VARIABLES
    params,                  \* constructor arguments (self.current_date, ...)
    loan_balance,            \* self.loan_balance
    total_repaid,            \* self.total_repaid
    net_salary_lost,         \* self.net_salary_lost
    repaid_in_full,          \* self.repaid_in_full
    months_repaying,         \* self.months_repaying
    dates,                   \* self.dates
    salaries,                \* self.salaries
    balances,                \* self.balances
    total_repayments,        \* self.total_repayments
    net_salary_lost_history, \* self.net_salary_lost_history
    salary_after_tax_history,\* self.salary_after_tax_history
    current_date,            \* simulate(): local current_date
    salary,                  \* simulate(): local salary
    current_year,            \* simulate(): local current_year
    pc,                      \* position: "constructed", "loop", "done",
                             \* "raised", "calc"
    calls,                   \* number of simulate() calls started
    first_result,            \* what the caller observed when the first call returned
    summary,                 \* last value returned by get_summary()
    calc                     \* results of direct calls of the calculators

vars == <<params, loan_balance, total_repaid, net_salary_lost, repaid_in_full,
          months_repaying, dates, salaries, balances, total_repayments,
          net_salary_lost_history, salary_after_tax_history, current_date,
          salary, current_year, pc, calls, first_result, summary, calc>>

(***************************************************************************)
(* Natural numbers of any size: sequences of digits in base 2^14, least    *)
(* significant digit first, without leading zero digits; << >> is 0.       *)
(***************************************************************************)
Base == 2^14

Limb(a, i) == IF i <= Len(a) THEN a[i] ELSE 0

RECURSIVE Trim(_)
Trim(a) ==
    IF a = << >> THEN a
    ELSE IF a[Len(a)] = 0 THEN Trim(SubSeq(a, 1, Len(a) - 1)) ELSE a

RECURSIVE AddFrom(_, _, _, _)
AddFrom(a, b, i, c) ==
    IF i > Len(a) /\ i > Len(b) THEN (IF c = 0 THEN << >> ELSE <<c>>)
    ELSE <<(Limb(a, i) + Limb(b, i) + c) % Base>>
         \o AddFrom(a, b, i + 1, (Limb(a, i) + Limb(b, i) + c) \div Base)

\* a + b
BigAdd(a, b) == AddFrom(a, b, 1, 0)

RECURSIVE SubFrom(_, _, _, _)
SubFrom(a, b, i, c) ==
    IF i > Len(a) THEN << >>
    ELSE <<(a[i] - Limb(b, i) - c) % Base>>
         \o SubFrom(a, b, i + 1, IF a[i] - Limb(b, i) - c < 0 THEN 1 ELSE 0)

\* a - b for a >= b
BigSub(a, b) == Trim(SubFrom(a, b, 1, 0))

RECURSIVE MulFrom(_, _, _, _)
MulFrom(a, k, i, c) ==
    IF i > Len(a) THEN (IF c = 0 THEN << >> ELSE <<c>>)
    ELSE <<(a[i] * k + c) % Base>>
         \o MulFrom(a, k, i + 1, (a[i] * k + c) \div Base)

\* a * k for a digit k
BigMulSmall(a, k) == IF k = 0 THEN << >> ELSE MulFrom(a, k, 1, 0)

\* The four digits of a number below Base^4, leading zero digits included.
FourDigits(a) == <<Limb(a, 1), Limb(a, 2), Limb(a, 3), Limb(a, 4)>>

\* The digits of a product from its column sums t1 .. t7, each of which
\* includes the carry of the column before it.
ProductDigits(t1, t2, t3, t4, t5, t6, t7) ==
    Trim(<<t1 % Base, t2 % Base, t3 % Base, t4 % Base, t5 % Base, t6 % Base,
           t7 % Base, t7 \div Base>>)

Column7(a, b, t1, t2, t3, t4, t5, t6) ==
    ProductDigits(t1, t2, t3, t4, t5, t6, a[4] * b[4] + t6 \div Base)

Column6(a, b, t1, t2, t3, t4, t5) ==
    Column7(a, b, t1, t2, t3, t4, t5,
            a[3] * b[4] + a[4] * b[3] + t5 \div Base)

Column5(a, b, t1, t2, t3, t4) ==
    Column6(a, b, t1, t2, t3, t4,
            a[2] * b[4] + a[3] * b[3] + a[4] * b[2] + t4 \div Base)

Column4(a, b, t1, t2, t3) ==
    Column5(a, b, t1, t2, t3,
            a[1] * b[4] + a[2] * b[3] + a[3] * b[2] + a[4] * b[1]
                + t3 \div Base)

Column3(a, b, t1, t2) ==
    Column4(a, b, t1, t2, a[1] * b[3] + a[2] * b[2] + a[3] * b[1] + t2 \div Base)

Column2(a, b, t1) ==
    Column3(a, b, t1, a[1] * b[2] + a[2] * b[1] + t1 \div Base)

Column1(a, b) == Column2(a, b, a[1] * b[1])

\* a * b for a and b below Base^4 (a significand is below 2^53): the sums
\* of the digit products a[i] * b[j] with the same i + j, carried upwards.
BigMul(a, b) == Column1(FourDigits(a), FourDigits(b))

\* One more quotient digit in front of q, and the new remainder.
DivDigit(q, cur, k) == [q |-> <<cur \div k>> \o q, r |-> cur % k]

\* The division continued by one digit below the digits divided so far.
DivStep(hi, digit, k) == DivDigit(hi.q, hi.r * Base + digit, k)

RECURSIVE DivFrom(_, _, _)
DivFrom(a, k, i) ==
    IF i > Len(a) THEN [q |-> << >>, r |-> 0]
    ELSE DivStep(DivFrom(a, k, i + 1), a[i], k)

TrimQuotient(x) == [q |-> Trim(x.q), r |-> x.r]

\* quotient and remainder of a by an integer 0 < k < 2^17
BigDivSmall(a, k) == TrimQuotient(DivFrom(a, k, 1))

RECURSIVE CmpFrom(_, _, _)
CmpFrom(a, b, i) ==
    IF i = 0 THEN 0
    ELSE IF a[i] < b[i] THEN -1 ELSE IF a[i] > b[i] THEN 1
    ELSE CmpFrom(a, b, i - 1)

\* -1, 0 or 1 as a < b, a = b or a > b
BigCmp(a, b) ==
    IF Len(a) < Len(b) THEN -1 ELSE IF Len(a) > Len(b) THEN 1
    ELSE CmpFrom(a, b, Len(a))

RECURSIVE Bits(_)
Bits(x) == IF x = 0 THEN 0 ELSE 1 + Bits(x \div 2)

\* the number of binary digits of a
BitLen(a) == IF a = << >> THEN 0 ELSE 14 * (Len(a) - 1) + Bits(a[Len(a)])

Pow2(k) ==
    <<1, 2, 4, 8, 16, 32, 64, 128, 256, 512, 1024, 2048, 4096, 8192>>[k + 1]

Zeros(n) == [i \in 1..n |-> 0]

\* a * 2^k
ShiftLeft(a, k) ==
    IF a = << >> THEN a ELSE Zeros(k \div 14) \o BigMulSmall(a, Pow2(k % 14))

\* The quotient x.q, and whether the division or the digits dropped before it
\* left anything.
WithSticky(x, dropped) ==
    [q |-> x.q,
     sticky |-> x.r # 0 \/ \E i \in 1..Len(dropped) : dropped[i] # 0]

\* a \div (Base^d * p), and whether a binary digit 1 was shifted out
DropDigits(a, d, p) ==
    IF d >= Len(a) THEN WithSticky([q |-> << >>, r |-> 0], a)
    ELSE WithSticky(BigDivSmall(SubSeq(a, d + 1, Len(a)), p), SubSeq(a, 1, d))

\* a \div 2^k, and whether a binary digit 1 was shifted out
ShiftRight(a, k) == DropDigits(a, k \div 14, Pow2(k % 14))

\* q, or q + 1 when the digit after q is 1 and a 1 follows it or q is odd
HalfEven(q, half, sticky) ==
    IF half /\ (sticky \/ Limb(q, 1) % 2 = 1) THEN BigAdd(q, <<1>>) ELSE q

\* sr.q / 2 rounded to the nearest integer, a tie to the even one
NearestEven(sr) ==
    HalfEven(BigDivSmall(sr.q, 2).q, Limb(sr.q, 1) % 2 = 1, sr.sticky)

\* a / 2^k rounded to the nearest integer, a tie to the even one
ShiftRightNearestEven(a, k) ==
    IF k = 0 THEN a ELSE NearestEven(ShiftRight(a, k - 1))

(***************************************************************************)
(* Python floats: IEEE 754 binary64 values.  A finite value is             *)
(* (-1)^s * m * 2^e with m < 2^53 and e >= -1074, in normal form: m has 53 *)
(* binary digits, or fewer and e = -1074 (a subnormal value), or m = 0 and *)
(* e = 0 (0.0 and -0.0).  Every operation returns the exact result rounded *)
(* to the nearest value, a tie to the one with an even m, as the hardware  *)
(* does.                                                                   *)
(***************************************************************************)
FZero(s) == [s |-> s, m |-> << >>, e |-> 0]

\* float('inf') and -float('inf')
Inf(s) == [s |-> s, m |-> << >>, e |-> 1024]

\* float('nan')
NaN == [s |-> 0, m |-> <<1>>, e |-> 1024]

IsZero(x) == x.m = << >> /\ x.e = 0

IsInf(x) == x.m = << >> /\ x.e = 1024

IsNaN(x) == x.m # << >> /\ x.e = 1024

IsFinite(x) == x.e # 1024

\* The value with m already rounded: inf when it exceeds the largest finite
\* value.
Finish(s, m, e) ==
    IF m = << >> THEN FZero(s)
    ELSE IF e > 971 THEN Inf(s)
    ELSE [s |-> s, m |-> m, e |-> e]

\* The number of low binary digits that a significand of L digits at
\* exponent e has too many (negative: too few).
Excess(L, e) == IF L - 53 > -1074 - e THEN L - 53 ELSE -1074 - e

\* The rounded significand m1 at exponent e; rounding up may have carried
\* into a 54th digit.
Carried(s, m1, e) ==
    IF BitLen(m1) = 54 THEN Finish(s, BigDivSmall(m1, 2).q, e + 1)
    ELSE Finish(s, m1, e)

\* M * 2^e with the k low digits of M rounded away.
RoundAway(s, M, e, k) ==
    IF k <= 0 THEN Finish(s, ShiftLeft(M, -k), e + k)
    ELSE Carried(s, ShiftRightNearestEven(M, k), e + k)

\* The float nearest to (-1)^s * M * 2^e.
Round(s, M, e) ==
    IF M = << >> THEN FZero(s) ELSE RoundAway(s, M, e, Excess(BitLen(M), e))

RECURSIVE Limbs(_)
Limbs(i) == IF i = 0 THEN << >> ELSE <<i % Base>> \o Limbs(i \div Base)

\* float(i) for an integer i
R(i) == Round(IF i < 0 THEN 1 ELSE 0, Limbs(IF i < 0 THEN -i ELSE i), 0)

\* 0.0
Zero == FZero(0)

\* 1.0: 2^52 * 2^-52
One == [s |-> 0, m |-> <<0, 0, 0, 1024>>, e |-> -52]

RNeg(x) == IF IsNaN(x) THEN x ELSE [x EXCEPT !.s = 1 - x.s]

\* Twice the quotient d.q, plus 1 when the division left a remainder.
WithRemainderBit(d) ==
    BigAdd(BigMulSmall(d.q, 2), IF d.r = 0 THEN << >> ELSE <<1>>)

\* The quotient of a * 2^84 by k with one more binary digit, which is 1 when
\* the division left a remainder.
ScaledQuotient(a, k) == WithRemainderBit(BigDivSmall(Zeros(6) \o a, k))

\* x / k for an integer 0 < k < 2^16
FDivInt(x, k) ==
    IF ~IsFinite(x) \/ IsZero(x) THEN x
    ELSE Round(x.s, ScaledQuotient(x.m, k), x.e - 85)

\* x / k for an integer k with 0 < |k| < 2^16
RDivInt(x, k) ==
    FDivInt(IF k < 0 THEN RNeg(x) ELSE x, IF k < 0 THEN -k ELSE k)

\* The float n / d of two integers, which is also the value of the decimal
\* literal that n / d writes out (0.09 is Rat(9, 100)).
Rat(n, d) == RDivInt(R(n), d)

\* -1, 0 or 1 as |x| < |y|, |x| = |y| or |x| > |y|, for finite x and y
MagCmp(x, y) ==
    IF IsZero(x) THEN (IF IsZero(y) THEN 0 ELSE -1)
    ELSE IF IsZero(y) THEN 1
    ELSE IF x.e < y.e THEN -1 ELSE IF x.e > y.e THEN 1
    ELSE BigCmp(x.m, y.m)

\* a + b when the signs are the same, a - b otherwise
SumOrDifference(same, a, b) == IF same THEN BigAdd(a, b) ELSE BigSub(a, b)

\* hi + lo for finite |hi| >= |lo|, not both zero; a |lo| below 2^-60 |hi| is
\* lost in the rounding.
AddOrdered(hi, lo) ==
    IF IsZero(lo) \/ hi.e - lo.e > 60 THEN hi
    ELSE IF hi.s # lo.s /\ hi.e = lo.e /\ hi.m = lo.m THEN FZero(0)
    ELSE Round(hi.s,
               SumOrDifference(hi.s = lo.s,
                               ShiftLeft(hi.m, hi.e - lo.e), lo.m),
               lo.e)

\* The pair x, y with the one of larger magnitude first.
Ordered(x, y) == IF MagCmp(x, y) >= 0 THEN <<x, y>> ELSE <<y, x>>

AddPair(p) == AddOrdered(p[1], p[2])

\* x + y
RAdd(x, y) ==
    IF IsNaN(x) \/ IsNaN(y) THEN NaN
    ELSE IF IsInf(x) THEN (IF IsInf(y) /\ x.s # y.s THEN NaN ELSE x)
    ELSE IF IsInf(y) THEN y
    ELSE IF IsZero(x) /\ IsZero(y)
         THEN FZero(IF x.s = 1 /\ y.s = 1 THEN 1 ELSE 0)
    ELSE AddPair(Ordered(x, y))

\* x - y
RSub(x, y) == RAdd(x, RNeg(y))

\* x * y
RMul(x, y) ==
    IF IsNaN(x) \/ IsNaN(y) THEN NaN
    ELSE IF IsInf(x) \/ IsInf(y)
         THEN (IF IsZero(x) \/ IsZero(y) THEN NaN
               ELSE Inf(IF x.s = y.s THEN 0 ELSE 1))
    ELSE IF IsZero(x) \/ IsZero(y) THEN FZero(IF x.s = y.s THEN 0 ELSE 1)
    ELSE Round(IF x.s = y.s THEN 0 ELSE 1, BigMul(x.m, y.m), x.e + y.e)

\* -1, 0 or 1 as |x| < |y|, |x| = |y| or |x| > |y|, for x and y that are
\* not nan
MagCmpInf(x, y) ==
    IF IsInf(x) THEN (IF IsInf(y) THEN 0 ELSE 1)
    ELSE IF IsInf(y) THEN -1 ELSE MagCmp(x, y)

\* x < y
RLt(x, y) ==
    IF IsNaN(x) \/ IsNaN(y) THEN FALSE
    ELSE IF IsZero(x) /\ IsZero(y) THEN FALSE
    ELSE IF x.s # y.s THEN x.s = 1
    ELSE IF x.s = 0 THEN MagCmpInf(x, y) < 0 ELSE MagCmpInf(y, x) < 0

\* x == y
REq(x, y) ==
    IF IsNaN(x) \/ IsNaN(y) THEN FALSE
    ELSE (IsZero(x) /\ IsZero(y)) \/ x = y

\* x <= y
RLe(x, y) == RLt(x, y) \/ REq(x, y)

\* Python's min(a, b): b when b < a, otherwise a.
RMin(a, b) == IF RLt(b, a) THEN b ELSE a

\* Python's max(a, b): b when b > a, otherwise a.
RMax(a, b) == IF RLt(a, b) THEN b ELSE a

(***************************************************************************)
(* Calendar: calendar.monthrange and date comparison.                      *)
(***************************************************************************)
DateTime(y, m, d, h) == [year |-> y, month |-> m, day |-> d, hour |-> h]

\* datetime(y, m, d): midnight at the start of the day.
Date(y, m, d) == DateTime(y, m, d, 0)

\* a < b on datetime values.
DateLt(a, b) ==
    \/ a.year < b.year
    \/ a.year = b.year /\ a.month < b.month
    \/ a.year = b.year /\ a.month = b.month /\ a.day < b.day
    \/ a.year = b.year /\ a.month = b.month /\ a.day = b.day /\ a.hour < b.hour

IsLeap(y) == (y % 4 = 0) /\ ((y % 100 # 0) \/ (y % 400 = 0))

\* calendar.monthrange(year, month)[1]: the number of days of the month.
MonthRange(y, m) ==
    IF m = 2 THEN (IF IsLeap(y) THEN 29 ELSE 28)
    ELSE IF m \in {4, 6, 9, 11} THEN 30 ELSE 31

\* A bug variant of _get_next_month_date: the month is not advanced, the
\* result is the last day of current's own month.
_get_next_month_date_same_month(current) ==
    Date(current.year, current.month, MonthRange(current.year, current.month))

\* A bug variant of _get_next_month_date: the year is not advanced after
\* December.
_get_next_month_date_same_year(current) ==
    LET next_month == (current.month % 12) + 1
    IN  Date(current.year, next_month, MonthRange(current.year, next_month))

\* The outcome of a call that raises ValueError instead of returning.
ValueError == [raised |-> "ValueError"]

\* _get_next_month_date: the last day of the month after current's month.
\* datetime accepts years up to 9999 (datetime.MAXYEAR) and raises
\* ValueError for year 10000.
_get_next_month_date(current) ==
    LET year == current.year
        month == current.month
        next_month == (month % 12) + 1
        next_year == IF next_month > month THEN year ELSE year + 1
        last_day_next_month == MonthRange(next_year, next_month)
    IN  IF next_year > 9999 THEN ValueError
        ELSE Date(next_year, next_month, last_day_next_month)

(***************************************************************************)
(* The calculators.                                                        *)
(***************************************************************************)
\* A bug variant of _apply_interest_monthly: a full year's interest is
\* charged every month.
_apply_interest_monthly_annual_rate(balance) ==
    RMul(balance, RAdd(One, params.interest_rate))

\* _apply_interest_monthly
_apply_interest_monthly(balance) ==
    LET monthly_interest_rate == RDivInt(params.interest_rate, 12)
    IN  RMul(balance, RAdd(One, monthly_interest_rate))

\* _apply_salary_increase
_apply_salary_increase(s) ==
    IF params.increase_type = "percent"
    THEN RMul(s, RAdd(One, RDivInt(params.salary_increase, 100)))
    ELSE RAdd(s, params.salary_increase)

\* The bracket table of _calculate_income_tax.
brackets ==
    << [limit |-> R(12570),  rate |-> Rat(0, 100)],
       [limit |-> R(50270),  rate |-> Rat(20, 100)],
       [limit |-> R(125140), rate |-> Rat(40, 100)],
       [limit |-> Inf(0),    rate |-> Rat(45, 100)] >>

\* A bug variant of TaxableIncome: the bracket's width is taken to be its
\* upper limit, prev_limit is not subtracted.
TaxableIncomeNoPrev(b, prev_limit, remaining_salary) ==
    RMin(b.limit, remaining_salary)

\* taxable_income = min(limit - prev_limit, remaining_salary)
TaxableIncome(b, prev_limit, remaining_salary) ==
    RMin(RSub(b.limit, prev_limit), remaining_salary)

\* The for loop of _calculate_income_tax over the brackets bs.
RECURSIVE TaxLoop(_, _, _, _)

\* The loop body for the bracket at the head of bs, and the rest of the loop.
TaxLoopBody(bs, taxable_income, remaining_salary, tax) ==
    IF RLe(taxable_income, Zero) THEN tax
    ELSE TaxLoop(Tail(bs), Head(bs).limit,
                 RSub(remaining_salary, taxable_income),
                 RAdd(tax, RMul(taxable_income, Head(bs).rate)))

TaxLoop(bs, prev_limit, remaining_salary, tax) ==
    IF bs = << >> THEN tax
    ELSE TaxLoopBody(bs, TaxableIncome(Head(bs), prev_limit, remaining_salary),
                     remaining_salary, tax)

\* _calculate_income_tax
_calculate_income_tax(s) == TaxLoop(brackets, Zero, s, Zero)

\* The thresholds and rates of _calculate_national_insurance.
primary_threshold == R(12570)

upper_earnings_limit == R(50270)

higher_rate == Rat(2, 100)

main_rate == Rat(12, 100)

\* A bug variant of _calculate_national_insurance: above the upper earnings
\* limit the main-rate segment is dropped.
_calculate_national_insurance_no_main(s) ==
    IF RLt(primary_threshold, s)
    THEN IF RLe(s, upper_earnings_limit)
         THEN RMul(RSub(s, primary_threshold), main_rate)
         ELSE RMul(RSub(s, upper_earnings_limit), higher_rate)
    ELSE Zero

\* _calculate_national_insurance
_calculate_national_insurance(s) ==
    IF RLt(primary_threshold, s)
    THEN IF RLe(s, upper_earnings_limit)
         THEN RMul(RSub(s, primary_threshold), main_rate)
         ELSE RAdd(RMul(RSub(upper_earnings_limit, primary_threshold), main_rate),
                   RMul(RSub(s, upper_earnings_limit), higher_rate))
    ELSE Zero

\* _salary_repayment
_salary_repayment(s) ==
    LET repayable_income == RMax(Zero, RSub(s, params.repayment_threshold))
    IN  RMul(repayable_income, params.repayment_rate)

(***************************************************************************)
(* get_summary.                                                            *)
(***************************************************************************)
\* M * 2^e rounded to the nearest integer, a tie to the even one.
NearestInteger(M, e) ==
    IF e >= 0 THEN ShiftLeft(M, e) ELSE ShiftRightNearestEven(M, -e)

\* 100 * |x| rounded to the nearest integer, a tie to the even one.
Hundredths(x) == NearestInteger(BigMulSmall(x.m, 100), x.e)

\* round(x, 2): the float nearest to the decimal number with two digits
\* after the point that is nearest to x, a tie to the even last digit.
Round2(x) ==
    IF ~IsFinite(x) \/ IsZero(x) THEN x
    ELSE Round(x.s, ScaledQuotient(Hundredths(x), 100), -85)

\* A bug variant of YearsRepaying: a started year is not counted.
YearsRepayingFloor(months) == months \div 12

\* years = months // 12 + (1 if months % 12 else 0)
YearsRepaying(months) == (months \div 12) + (IF months % 12 # 0 THEN 1 ELSE 0)

\* A bug variant of get_summary: the total adds the cash actually repaid
\* instead of the plan's configured amounts.
get_summary_cash_repaid(tr, nsl, lb, rif, months) ==
    LET years == YearsRepaying(months)
        total_net_salary_lost_plus_repayments == RAdd(nsl, tr)
    IN  [total_repaid |-> Round2(tr),
         net_salary_lost |-> Round2(nsl),
         remaining_loan_balance |-> Round2(lb),
         loan_repaid_in_full |-> rif,
         months_repaying |-> months,
         years_repaying |-> years,
         total_net_salary_lost_plus_repayments |->
             Round2(total_net_salary_lost_plus_repayments)]

\* The dictionary get_summary returns for the given engine fields.
get_summary(tr, nsl, lb, rif, months) ==
    LET years == YearsRepaying(months)
        total_repayments_from_plan ==
            RAdd(params.upfront, RMul(params.monthly, R(months)))
        total_net_salary_lost_plus_repayments ==
            RAdd(nsl, total_repayments_from_plan)
    IN  [total_repaid |-> Round2(tr),
         net_salary_lost |-> Round2(nsl),
         remaining_loan_balance |-> Round2(lb),
         loan_repaid_in_full |-> rif,
         months_repaying |-> months,
         years_repaying |-> years,
         total_net_salary_lost_plus_repayments |->
             Round2(total_net_salary_lost_plus_repayments)]

(***************************************************************************)
(* simulate.                                                               *)
(***************************************************************************)
\* A bug variant of ResetState: total_repaid and the repaid series are not
\* reset, so they carry over from the previous call.
ResetStateKeepRepaid ==
    [loan_balance |-> params.loan_value,
     total_repaid |-> total_repaid,
     net_salary_lost |-> Zero,
     months_repaying |-> 0,
     repaid_in_full |-> FALSE,
     dates |-> << >>, salaries |-> << >>, balances |-> << >>,
     total_repayments |-> total_repayments,
     net_salary_lost_history |-> << >>,
     salary_after_tax_history |-> << >>]

\* The resets and clear() calls at the start of simulate.
ResetState ==
    [loan_balance |-> params.loan_value,
     total_repaid |-> Zero,
     net_salary_lost |-> Zero,
     months_repaying |-> 0,
     repaid_in_full |-> FALSE,
     dates |-> << >>, salaries |-> << >>, balances |-> << >>,
     total_repayments |-> << >>,
     net_salary_lost_history |-> << >>,
     salary_after_tax_history |-> << >>]

\* A bug variant of UpfrontPayment: the upfront amount is not capped.
UpfrontPaymentUncapped(upfront, balance) == upfront

\* upfront_payment = min(self.repayment.upfront, self.loan_balance)
UpfrontPayment(upfront, balance) == RMin(upfront, balance)

\* A bug variant of LoopCondition: either condition keeps the loop running.
LoopConditionEither(date, balance) ==
    DateLt(date, params.write_off_date) \/ RLt(Zero, balance)

\* A bug variant of LoopCondition: a zero balance keeps the loop running.
LoopConditionZeroBalance(date, balance) ==
    DateLt(date, params.write_off_date) /\ RLe(Zero, balance)

\* A bug variant of LoopCondition: the write-off date itself is simulated.
LoopConditionInclusive(date, balance) ==
    (~DateLt(params.write_off_date, date)) /\ RLt(Zero, balance)

\* while current_date < self.write_off_date and self.loan_balance > 0
LoopCondition(date, balance) ==
    DateLt(date, params.write_off_date) /\ RLt(Zero, balance)

\* salary - income tax - national insurance
AfterTax(s) ==
    RSub(RSub(s, _calculate_income_tax(s)), _calculate_national_insurance(s))

\* A bug variant of ActualRepayment: the repayment is not capped at the
\* balance.
ActualRepaymentUncapped(total_monthly_repayment, balance) ==
    total_monthly_repayment

\* actual_repayment = min(total_monthly_repayment, self.loan_balance)
ActualRepayment(total_monthly_repayment, balance) ==
    RMin(total_monthly_repayment, balance)

\* if self.loan_balance <= 0
PayoffReached(balance) == RLe(balance, Zero)

\* A bug variant of SalaryIncreaseDue: the period's year is compared with
\* the start year, as if current_year were never updated.
SalaryIncreaseDueSinceStart(date, year) ==
    date.year > params.current_date.year

\* if current_date.year > current_year
SalaryIncreaseDue(date, year) == date.year > year

\* A bug variant of NetSalaryLoss: the operands are swapped.
NetSalaryLossSwapped(no_repayment, with_repayment) ==
    RSub(with_repayment, no_repayment)

\* net_salary_loss = salary_after_tax_no_repayment - salary_after_tax_with_repayment
NetSalaryLoss(no_repayment, with_repayment) ==
    RSub(no_repayment, with_repayment)

\* A bug variant of MonthsAfterPeriod: the counter is incremented after the
\* payoff check, so the period that pays the loan off is not counted.
MonthsAfterPeriodUnlessPaid(months, paid) ==
    IF paid THEN months ELSE months + 1

\* self.months_repaying += 1, executed before the payoff check
MonthsAfterPeriod(months, paid) == months + 1

\* What a caller can read from the engine once simulate has returned: the
\* fields, the series and what get_summary returns for them.
Observed(lb, tr, nsl, rif, months, ds, ss, bs, trs, nslh, sath) ==
    [loan_balance |-> lb, total_repaid |-> tr, net_salary_lost |-> nsl,
     repaid_in_full |-> rif, months_repaying |-> months,
     dates |-> ds, salaries |-> ss, balances |-> bs,
     total_repayments |-> trs, net_salary_lost_history |-> nslh,
     salary_after_tax_history |-> sath,
     summary |-> get_summary(tr, nsl, lb, rif, months)]

NoResult == [none |-> TRUE]

NoSummary == [none |-> TRUE]

NoCalc == [fn |-> "none", arg |-> Zero, result |-> Zero]

(***************************************************************************)
(* Bounds and the inputs the engine is constructed with.                   *)
(***************************************************************************)
\* The write-off date lies at most this many calendar months after the
\* start date's month.
MaxHorizon == 4

\* simulate is called at most this many times on one engine.
MaxCalls == 2

StartDates == {Date(2023, 11, 15), Date(2023, 12, 31)}

WriteOffDays == {"first", "mid", "last", "last_morning"}

\* A date in the k-th month after sd's month: its first day, its 20th, its
\* last day, or 8 o'clock in the morning of its last day.
WriteOffDate(sd, k, which) ==
    LET idx == (sd.month - 1) + k
        y == sd.year + (idx \div 12)
        m == (idx % 12) + 1
    IN  CASE which = "first" -> Date(y, m, 1)
          [] which = "mid" -> Date(y, m, 20)
          [] which = "last" -> Date(y, m, MonthRange(y, m))
          [] OTHER -> DateTime(y, m, MonthRange(y, m), 8)

LoanValues == {R(100), R(1000)}

Salaries == {R(20000), R(60000)}

Upfronts == {R(0), R(100), R(2000)}

Monthlies == {R(0), R(30)}

Increases == {[type |-> "percent", amount |-> R(10)],
              [type |-> "fixed", amount |-> R(1000)]}

InterestRates == {R(0), R(3)}

\* StudentLoanModel.__init__ with RepaymentModel(upfront, monthly); the
\* threshold and the repayment rate are the constructor's defaults.
Engine(sd, wd, lv, sal, inc, up, mo, ir) ==
    [current_date |-> sd,
     loan_value |-> lv,
     write_off_date |-> wd,
     initial_salary |-> sal,
     salary_increase |-> inc.amount,
     increase_type |-> inc.type,
     upfront |-> up,
     monthly |-> mo,
     repayment_threshold |-> R(27295),
     repayment_rate |-> Rat(9, 100),
     interest_rate |-> ir]

\* The fields __init__ sets besides the parameters.
Constructed(p) ==
    /\ params = p
    /\ loan_balance = p.loan_value
    /\ total_repaid = Zero
    /\ net_salary_lost = Zero
    /\ repaid_in_full = FALSE
    /\ months_repaying = 0
    /\ dates = << >>
    /\ salaries = << >>
    /\ balances = << >>
    /\ total_repayments = << >>
    /\ net_salary_lost_history = << >>
    /\ salary_after_tax_history = << >>
    /\ current_date = p.current_date
    /\ salary = p.initial_salary
    /\ current_year = p.current_date.year
    /\ calls = 0
    /\ first_result = NoResult
    /\ summary = NoSummary
    /\ calc = NoCalc

\* Engines whose fifth repayment equals the balance as a real number
\* (repayments of 1.8 and 30.6 a month): the rounded floats leave a balance
\* of about 1e-15 after it.  The write-off date lies right after the fifth
\* period or later.
RoundingEngines ==
    {Engine(Date(2023, 1, 15), wd, R(9), R(27535),
            [type |-> "percent", amount |-> R(10)], R(0), R(0), R(0)) :
         wd \in {Date(2023, 6, 30), Date(2023, 12, 31)}}
    \cup {Engine(Date(2023, 1, 15), Date(2023, 12, 31), R(153), R(27375),
                 [type |-> "percent", amount |-> R(10)], R(0), R(30), R(0))}

\* Engines that start in the last two months of year 9999, the last year a
\* datetime can hold.
LastYearEngines ==
    {Engine(sd, wd, lv, R(60000), [type |-> "fixed", amount |-> R(1000)],
            R(0), R(0), ir) :
         sd \in {Date(9999, 11, 15), Date(9999, 12, 15)},
         wd \in {Date(9999, 12, 20), DateTime(9999, 12, 31, 8)},
         lv \in {R(100), R(1000)}, ir \in InterestRates}

\* Engines with a principal or an upfront amount that is zero or negative.
MalformedEngines ==
    {Engine(sd, WriteOffDate(sd, k, "last"), lv, R(30000),
            [type |-> "fixed", amount |-> R(1000)], up, mo, R(3)) :
         sd \in StartDates, k \in {0, MaxHorizon}, lv \in {R(-100), R(0)},
         up \in {R(-200), R(0), R(100)}, mo \in Monthlies}
    \cup {Engine(sd, WriteOffDate(sd, MaxHorizon, "last"), lv, R(30000),
                 [type |-> "fixed", amount |-> R(1000)], R(-200), mo, R(0)) :
              sd \in StartDates, lv \in LoanValues, mo \in Monthlies}

Init ==
    /\ pc = "constructed"
    /\ \/ \E sd \in StartDates, k \in 0..MaxHorizon, which \in WriteOffDays,
             lv \in LoanValues, sal \in Salaries, up \in Upfronts,
             mo \in Monthlies, ir \in InterestRates :
             Constructed(Engine(sd, WriteOffDate(sd, k, which), lv, sal,
                                [type |-> "percent", amount |-> R(10)],
                                up, mo, ir))
       \/ \E e \in MalformedEngines \cup RoundingEngines \cup LastYearEngines :
              Constructed(e)

(***************************************************************************)
(* Actions.                                                                *)
(***************************************************************************)
\* simulate() up to the first evaluation of the while condition.
SimulateStart ==
    /\ pc \in {"constructed", "done", "raised"}
    /\ calls < MaxCalls
    /\ LET r == ResetState
           upfront_payment == UpfrontPayment(params.upfront, r.loan_balance)
       IN  /\ loan_balance' = RSub(r.loan_balance, upfront_payment)
           /\ total_repaid' = RAdd(r.total_repaid, upfront_payment)
           /\ net_salary_lost' = r.net_salary_lost
           /\ months_repaying' = r.months_repaying
           /\ repaid_in_full' = r.repaid_in_full
           /\ dates' = r.dates
           /\ salaries' = r.salaries
           /\ balances' = r.balances
           /\ total_repayments' = r.total_repayments
           /\ net_salary_lost_history' = r.net_salary_lost_history
           /\ salary_after_tax_history' = r.salary_after_tax_history
    /\ current_date' = params.current_date
    /\ salary' = params.initial_salary
    /\ current_year' = params.current_date.year
    /\ pc' = "loop"
    /\ calls' = calls + 1
    /\ UNCHANGED <<params, first_result, summary, calc>>

\* One iteration of the while loop, including the break when the loan is
\* paid off and the ValueError that line 283 raises when the next month
\* lies after year 9999.
Period ==
    /\ pc = "loop"
    /\ LoopCondition(current_date, loan_balance)
    /\ LET salary_after_tax_no_repayment == AfterTax(salary)
           repayment_from_salary == _salary_repayment(salary)
           salary_after_repayment == RSub(salary, repayment_from_salary)
           salary_after_tax_with_repayment == AfterTax(salary_after_repayment)
           net_salary_loss == NetSalaryLoss(salary_after_tax_no_repayment,
                                            salary_after_tax_with_repayment)
           monthly_repayment_from_salary == RDivInt(_salary_repayment(salary), 12)
           total_monthly_repayment == RAdd(monthly_repayment_from_salary,
                                           params.monthly)
           actual_repayment == ActualRepayment(total_monthly_repayment, loan_balance)
           balance_after == _apply_interest_monthly(
                                RSub(loan_balance, actual_repayment))
           new_year == SalaryIncreaseDue(current_date, current_year)
           next_date == _get_next_month_date(current_date)
           raised == next_date = ValueError
           paid == (~raised) /\ PayoffReached(balance_after)
           lb == IF paid THEN Zero ELSE balance_after
           tr == RAdd(total_repaid, actual_repayment)
           nsl == RAdd(net_salary_lost, RDivInt(net_salary_loss, 12))
           rif == IF paid THEN TRUE ELSE repaid_in_full
           ds == Append(dates, current_date)
           ss == Append(salaries, salary)
           bs == Append(balances, loan_balance)
           trs == Append(total_repayments, total_repaid)
           nslh == Append(net_salary_lost_history, net_salary_lost)
           sath == Append(salary_after_tax_history,
                          salary_after_tax_with_repayment)
           months == MonthsAfterPeriod(months_repaying, paid)
       IN  /\ dates' = ds
           /\ salaries' = ss
           /\ balances' = bs
           /\ total_repayments' = trs
           /\ net_salary_lost_history' = nslh
           /\ salary_after_tax_history' = sath
           /\ net_salary_lost' = nsl
           /\ loan_balance' = lb
           /\ total_repaid' = tr
           /\ salary' = IF new_year THEN _apply_salary_increase(salary) ELSE salary
           /\ current_year' = IF new_year THEN current_date.year ELSE current_year
           /\ months_repaying' = months
           /\ current_date' = IF raised THEN current_date ELSE next_date
           /\ repaid_in_full' = rif
           /\ pc' = IF raised THEN "raised" ELSE IF paid THEN "done" ELSE "loop"
           /\ first_result' =
                  IF paid /\ calls = 1
                  THEN Observed(loan_balance', total_repaid', net_salary_lost',
                                repaid_in_full', months_repaying', dates',
                                salaries', balances', total_repayments',
                                net_salary_lost_history',
                                salary_after_tax_history')
                  ELSE first_result
    /\ UNCHANGED <<params, calls, summary, calc>>

\* The while condition is false: simulate returns.
LoopExit ==
    /\ pc = "loop"
    /\ ~LoopCondition(current_date, loan_balance)
    /\ pc' = "done"
    /\ first_result' =
           IF calls = 1
           THEN Observed(loan_balance, total_repaid, net_salary_lost,
                         repaid_in_full, months_repaying, dates, salaries,
                         balances, total_repayments, net_salary_lost_history,
                         salary_after_tax_history)
           ELSE first_result
    /\ UNCHANGED <<params, loan_balance, total_repaid, net_salary_lost,
                   repaid_in_full, months_repaying, dates, salaries, balances,
                   total_repayments, net_salary_lost_history,
                   salary_after_tax_history, current_date, salary,
                   current_year, calls, summary, calc>>

\* get_summary() called on the engine, before or after simulate, when the
\* caller does not already hold the summary of the engine's state.
Summarize ==
    /\ pc \in {"constructed", "done", "raised"}
    /\ summary # get_summary(total_repaid, net_salary_lost, loan_balance,
                              repaid_in_full, months_repaying)
    /\ summary' = get_summary(total_repaid, net_salary_lost, loan_balance,
                              repaid_in_full, months_repaying)
    /\ UNCHANGED <<params, loan_balance, total_repaid, net_salary_lost,
                   repaid_in_full, months_repaying, dates, salaries, balances,
                   total_repayments, net_salary_lost_history,
                   salary_after_tax_history, current_date, salary,
                   current_year, pc, calls, first_result, calc>>

Next == SimulateStart \/ Period \/ LoopExit \/ Summarize

Spec == Init /\ [][Next]_vars

(***************************************************************************)
(* Runs of two years and more: interest-free loans that a low or middle    *)
(* salary repays slowly or not at all before the write-off date.           *)
(***************************************************************************)
\* The write-off date lies at most this many calendar months after the
\* start date's month, and at most three months less.
MaxLongHorizon == 26

LongLoanValues == {R(600), R(1000)}

LongSalaries == {R(20000), R(30000)}

LongInit ==
    /\ pc = "constructed"
    /\ \E sd \in StartDates, k \in (MaxLongHorizon - 3)..MaxLongHorizon,
          which \in {"first", "last"}, lv \in LongLoanValues,
          sal \in LongSalaries, inc \in Increases, mo \in Monthlies :
          Constructed(Engine(sd, WriteOffDate(sd, k, which), lv, sal, inc,
                             R(0), mo, R(0)))

LongSpec == LongInit /\ [][Next]_vars

(***************************************************************************)
(* Direct calls of the pure calculators.                                   *)
(***************************************************************************)
\* The salary grid runs from -2570 to MaxGrid * 2570.
MaxGrid == 60

CalcBoundaries == {12570, 50270, 125140}

CalcInputs ==
    {R(k * 2570) : k \in -1..MaxGrid}
    \cup {R(b + e) : b \in CalcBoundaries, e \in {-1, 0, 1}}
    \cup {Rat(2 * b + e, 2) : b \in CalcBoundaries, e \in {-1, 1}}
    \cup {R(1000000), R(20000000)}

CalcEngine ==
    Engine(Date(2023, 11, 15), Date(2024, 3, 31), R(1000), R(30000),
           [type |-> "percent", amount |-> R(10)], R(0), R(0), R(0))

CalcInit ==
    /\ pc = "calc"
    /\ Constructed(CalcEngine)

CalcIncomeTax ==
    /\ pc = "calc"
    /\ \E s \in CalcInputs :
           calc' = [fn |-> "_calculate_income_tax", arg |-> s,
                    result |-> _calculate_income_tax(s)]
    /\ UNCHANGED <<params, loan_balance, total_repaid, net_salary_lost,
                   repaid_in_full, months_repaying, dates, salaries, balances,
                   total_repayments, net_salary_lost_history,
                   salary_after_tax_history, current_date, salary,
                   current_year, pc, calls, first_result, summary>>

CalcNationalInsurance ==
    /\ pc = "calc"
    /\ \E s \in CalcInputs :
           calc' = [fn |-> "_calculate_national_insurance", arg |-> s,
                    result |-> _calculate_national_insurance(s)]
    /\ UNCHANGED <<params, loan_balance, total_repaid, net_salary_lost,
                   repaid_in_full, months_repaying, dates, salaries, balances,
                   total_repayments, net_salary_lost_history,
                   salary_after_tax_history, current_date, salary,
                   current_year, pc, calls, first_result, summary>>

CalcYears == {2000, 2023, 2024, 2100, 9999}

\* Valid datetimes of every month of the years above: early, middle and late
\* days, at midnight and at 8 o'clock.
CalcDates ==
    UNION {{DateTime(ym[1], ym[2], d, h) :
                d \in {dd \in {1, 15, 28, 29, 30, 31} :
                           dd <= MonthRange(ym[1], ym[2])},
                h \in {0, 8}} : ym \in CalcYears \X (1..12)}

CalcNextMonthDate ==
    /\ pc = "calc"
    /\ \E current \in CalcDates :
           calc' = [fn |-> "_get_next_month_date", arg |-> current,
                    result |-> _get_next_month_date(current)]
    /\ UNCHANGED <<params, loan_balance, total_repaid, net_salary_lost,
                   repaid_in_full, months_repaying, dates, salaries, balances,
                   total_repayments, net_salary_lost_history,
                   salary_after_tax_history, current_date, salary,
                   current_year, pc, calls, first_result, summary>>

CalcNext == CalcIncomeTax \/ CalcNationalInsurance \/ CalcNextMonthDate

CalcSpec == CalcInit /\ [][CalcNext]_vars

(***************************************************************************)
(* Properties.                                                             *)
(***************************************************************************)
\* Non-negative principal, plan amounts and interest rate.
NonNegativeAmounts ==
    /\ RLe(Zero, params.loan_value)
    /\ RLe(Zero, params.upfront)
    /\ RLe(Zero, params.monthly)
    /\ RLe(Zero, params.interest_rate)

\* A positive principal and a start date before the write-off date.
RepayableLoan ==
    /\ RLt(Zero, params.loan_value)
    /\ DateLt(params.current_date, params.write_off_date)

NonDecreasing(seq) ==
    \A i \in 1..(Len(seq) - 1) : RLe(seq[i], seq[i + 1])

\* C1: with non-negative principal, plan amounts and interest rate, the
\* balance is >= 0 after the upfront payment and after every period, and
\* the balance is exactly 0 whenever repaid_in_full is true.
C1_BalanceNonNegative ==
    NonNegativeAmounts =>
        /\ RLe(Zero, loan_balance)
        /\ \A i \in 1..Len(balances) : RLe(Zero, balances[i])
        /\ repaid_in_full => loan_balance = Zero

\* A run that made an upfront payment, executed several periods and ended
\* repaid in full.
C1_Witness ==
    /\ pc = "done"
    /\ NonNegativeAmounts
    /\ RLt(Zero, params.upfront)
    /\ months_repaying >= 2
    /\ repaid_in_full

\* C2: the recorded total_repayments and net_salary_lost_history series
\* are non-decreasing, and the current total_repaid and net_salary_lost
\* are not below the last recorded values.
C2_Monotone ==
    /\ NonDecreasing(total_repayments)
    /\ NonDecreasing(net_salary_lost_history)
    /\ Len(total_repayments) > 0 =>
           RLe(total_repayments[Len(total_repayments)], total_repaid)
    /\ Len(net_salary_lost_history) > 0 =>
           RLe(net_salary_lost_history[Len(net_salary_lost_history)],
               net_salary_lost)

\* A finished run of at least three periods over which both series grew.
C2_Witness ==
    /\ pc = "done"
    /\ Len(total_repayments) >= 3
    /\ RLt(total_repayments[1], total_repayments[3])
    /\ RLt(net_salary_lost_history[1], net_salary_lost_history[3])
    /\ RLt(net_salary_lost_history[3], net_salary_lost)

RepaidInFullState == repaid_in_full /\ loan_balance = Zero

WrittenOffState ==
    /\ ~DateLt(current_date, params.write_off_date)
    /\ RLt(Zero, loan_balance)
    /\ ~repaid_in_full

\* C3: every run (of a loan with positive principal, non-negative amounts
\* and a start date before the write-off date) ends either RepaidInFull
\* or WrittenOff, and repaid_in_full is true exactly when the balance
\* reached zero before the write-off date.
C3_TwoTerminalStates ==
    (pc = "done" /\ NonNegativeAmounts /\ RepayableLoan) =>
        /\ RepaidInFullState \/ WrittenOffState
        /\ ~(RepaidInFullState /\ WrittenOffState)
        /\ repaid_in_full <=> (loan_balance = Zero)

\* C4: if upfront >= loan_value (principal > 0, start before write-off),
\* the loop body never executes: once simulate has applied the upfront
\* payment the balance is 0, months_repaying is 0, the history is empty
\* and repaid_in_full is false, and this is the state on return.
C4_UpfrontPayoff ==
    (/\ calls >= 1
     /\ RepayableLoan
     /\ RLe(params.loan_value, params.upfront)) =>
        /\ loan_balance = Zero
        /\ months_repaying = 0
        /\ dates = << >> /\ salaries = << >> /\ balances = << >>
        /\ total_repayments = << >> /\ net_salary_lost_history = << >>
        /\ salary_after_tax_history = << >>
        /\ ~repaid_in_full

\* simulate has returned for a loan whose upfront payment exceeds its
\* principal.
C4_Witness ==
    /\ pc = "done"
    /\ calls >= 1
    /\ RepayableLoan
    /\ RLt(params.loan_value, params.upfront)

\* C5: no period dated on or after the write-off date is simulated, and a
\* run whose balance is still > 0 on return has stopped at the write-off
\* boundary: the current date is >= write_off_date, the balance is left
\* as it was and repaid_in_full is false.
C5_WriteOffTermination ==
    /\ \A i \in 1..Len(dates) : DateLt(dates[i], params.write_off_date)
    /\ (pc = "done" /\ RLt(Zero, loan_balance)) =>
           /\ ~DateLt(current_date, params.write_off_date)
           /\ ~repaid_in_full
           /\ Len(balances) > 0 =>
                  LET b == balances[Len(balances)]
                      s == salaries[Len(balances)]
                      p == RMin(RAdd(RDivInt(_salary_repayment(s), 12),
                                     params.monthly), b)
                  IN  loan_balance = _apply_interest_monthly(RSub(b, p))

\* A run of several periods that reached the write-off date with a
\* positive balance.
C5_Witness ==
    /\ pc = "done"
    /\ months_repaying >= 2
    /\ RLt(Zero, loan_balance)
    /\ DateLt(params.current_date, params.write_off_date)

\* The calendar months from date a to date b: the difference of their
\* month indices.
MonthsBetween(a, b) == 12 * (b.year - a.year) + (b.month - a.month)

\* C6 as stated: months_repaying is at most the number of calendar months
\* between the start date and the write-off date.
C6_AtMostMonthsBetween ==
    months_repaying <=
        (IF MonthsBetween(params.current_date, params.write_off_date) > 0
         THEN MonthsBetween(params.current_date, params.write_off_date)
         ELSE 0)

\* The bound of the amended C6: one more than the months between the two
\* dates when the start date precedes the write-off date, otherwise 0.
PeriodBound ==
    IF DateLt(params.current_date, params.write_off_date)
    THEN MonthsBetween(params.current_date, params.write_off_date) + 1
    ELSE 0

\* C6 (amended): simulate terminates: every step of a running call either
\* returns, raises ValueError because the next month lies after year 9999,
\* or executes one period, which counts one more month and moves the
\* current date forward into the next calendar month, and the number
\* of periods executed, months_repaying, is at most one more than the
\* number of calendar months between the start date and the write-off date
\* (and 0 when the start date does not precede the write-off date).
C6_TerminatesWithinBound ==
    /\ [](months_repaying <= PeriodBound)
    /\ [][pc = "loop" =>
            \/ pc' \in {"done", "raised"}
            \/ /\ pc' = "loop"
               /\ months_repaying' = months_repaying + 1
               /\ MonthsBetween(current_date, current_date') = 1]_vars

\* A run written off after exactly as many periods as the bound allows,
\* and more than one.
C6_Witness ==
    /\ pc = "done"
    /\ RLt(Zero, loan_balance)
    /\ months_repaying >= 2
    /\ months_repaying = PeriodBound

\* C7: after a second (or later) simulate call on the same engine the
\* history series, the final state and the get_summary result equal those
\* observed after the first call.
C7_IdempotentRerun ==
    (pc = "done" /\ calls >= 2) =>
        Observed(loan_balance, total_repaid, net_salary_lost, repaid_in_full,
                 months_repaying, dates, salaries, balances, total_repayments,
                 net_salary_lost_history, salary_after_tax_history)
            = first_result

\* The second call has returned after a run of several periods that
\* followed an upfront payment.
C7_Witness ==
    /\ pc = "done"
    /\ calls = 2
    /\ months_repaying >= 2
    /\ RLt(Zero, total_repayments[1])
    /\ first_result # NoResult

\* C8: the six history series have the same length, equal to
\* months_repaying, one entry per simulated month including the period in
\* which the loan is repaid in full.
C8_SeriesLengths ==
    /\ Len(dates) = months_repaying
    /\ Len(salaries) = months_repaying
    /\ Len(balances) = months_repaying
    /\ Len(total_repayments) = months_repaying
    /\ Len(net_salary_lost_history) = months_repaying
    /\ Len(salary_after_tax_history) = months_repaying

\* A run of several periods whose last period repaid the loan in full.
C8_Witness ==
    /\ pc = "done"
    /\ repaid_in_full
    /\ months_repaying >= 3
    /\ Len(dates) = months_repaying

\* The progressive-bracket sum in closed form.
BracketSum(s) ==
    IF RLe(s, R(12570)) THEN Zero
    ELSE IF RLe(s, R(50270)) THEN RMul(RSub(s, R(12570)), Rat(20, 100))
    ELSE IF RLe(s, R(125140))
         THEN RAdd(RMul(R(50270 - 12570), Rat(20, 100)),
                   RMul(RSub(s, R(50270)), Rat(40, 100)))
    ELSE RAdd(RAdd(RMul(R(50270 - 12570), Rat(20, 100)),
                   RMul(R(125140 - 50270), Rat(40, 100))),
              RMul(RSub(s, R(125140)), Rat(45, 100)))

\* C9: _calculate_income_tax returns the progressive-bracket sum: 0 up to
\* 12570, (50270-12570)*0.20 at 50270, that plus (125140-50270)*0.40 at
\* 125140, and 45% of all income above 125140.
C9_IncomeTaxBrackets ==
    calc.fn = "_calculate_income_tax" =>
        /\ calc.result = BracketSum(calc.arg)
        /\ RLe(calc.arg, R(12570)) => calc.result = Zero
        /\ calc.arg = R(50270) => calc.result = R(7540)
        /\ calc.arg = R(125140) => calc.result = R(7540 + 29948)
        /\ RLt(R(125140), calc.arg) =>
               calc.result = RAdd(R(37488), RMul(RSub(calc.arg, R(125140)), Rat(45, 100)))

\* The tax of a salary in the top bracket has been computed.
C9_Witness ==
    /\ calc.fn = "_calculate_income_tax"
    /\ RLt(R(1000000), calc.arg)
    /\ RLt(R(37488), calc.result)

\* C10: _calculate_national_insurance is never negative, 0 up to 12570,
\* (salary-12570)*0.12 in (12570, 50270] and
\* (50270-12570)*0.12 + (salary-50270)*0.02 above 50270.
C10_NationalInsurance ==
    calc.fn = "_calculate_national_insurance" =>
        /\ RLe(Zero, calc.result)
        /\ RLe(calc.arg, R(12570)) => calc.result = Zero
        /\ (RLt(R(12570), calc.arg) /\ RLe(calc.arg, R(50270))) =>
               calc.result = RMul(RSub(calc.arg, R(12570)), Rat(12, 100))
        /\ calc.arg = R(50270) => calc.result = R(4524)
        /\ RLt(R(50270), calc.arg) =>
               calc.result = RAdd(R(4524), RMul(RSub(calc.arg, R(50270)), Rat(2, 100)))

\* The contribution of a salary above the upper earnings limit has been
\* computed.
C10_Witness ==
    /\ calc.fn = "_calculate_national_insurance"
    /\ RLt(R(50270), calc.arg)
    /\ RLt(R(4524), calc.result)

\* C11: get_summary reports years repaying as the ceiling of
\* months_repaying / 12, that is floor(months/12) plus 1 when months is not
\* a multiple of 12: 0 for 0 months, 2 for 24 months and 3 for 25 months.
C11_YearsRepaying ==
    summary # NoSummary =>
        LET m == summary.months_repaying
            y == summary.years_repaying
        IN  /\ 12 * y >= m
            /\ 12 * (y - 1) < m \/ (m = 0 /\ y = 0)
            /\ y = (m \div 12) + (IF m % 12 = 0 THEN 0 ELSE 1)
            /\ m = 0 => y = 0
            /\ m = 24 => y = 2
            /\ m = 25 => y = 3

\* A summary of a run of 25 periods reports 3 years.
C11_Witness ==
    /\ summary # NoSummary
    /\ pc = "done"
    /\ months_repaying = 25
    /\ summary.months_repaying = 25
    /\ summary.years_repaying = 3

\* C12: the total net loss plus repayments that get_summary returns is the
\* rounded value of net_salary_lost + repayment.upfront +
\* repayment.monthly * months_repaying, built from the plan's configured
\* amounts and not from the cash applied to the balance.
C12_PlanTotal ==
    [][summary' # summary =>
          summary'.total_net_salary_lost_plus_repayments =
              Round2(RAdd(net_salary_lost,
                          RAdd(params.upfront,
                               RMul(params.monthly, R(months_repaying)))))]_vars

\* A summary of a finished run whose total differs from the rounded
\* net_salary_lost + total_repaid: the plan's upfront amount exceeds the
\* principal, so less cash was applied than the plan configures.
C12_Witness ==
    /\ pc = "done"
    /\ summary = get_summary(total_repaid, net_salary_lost, loan_balance,
                             repaid_in_full, months_repaying)
    /\ RLt(params.loan_value, params.upfront)
    /\ RLt(Zero, params.loan_value)
    /\ summary.total_net_salary_lost_plus_repayments #
           Round2(RAdd(net_salary_lost, total_repaid))
    /\ summary.total_net_salary_lost_plus_repayments = params.upfront

\* The income-based repayment of a year: the repayment rate on the part of
\* the salary above the threshold.
IncomeRepayment(s) ==
    IF RLt(params.repayment_threshold, s)
    THEN RMul(RSub(s, params.repayment_threshold), params.repayment_rate)
    ELSE Zero

\* The cash repayment of a period that starts with balance b.
CashRepayment(s, b) ==
    RMin(RAdd(RDivInt(IncomeRepayment(s), 12), params.monthly), b)

\* C13: in each executed period, with b the balance at its start, the cash
\* repayment is p = min(income_repayment(salary)/12 + repayment.monthly, b),
\* total_repaid increases by exactly p, and the balance at the end of the
\* period is (b - p) * (1 + interest_rate/12), or 0 when that is <= 0:
\* interest accrues on the post-repayment balance only.
C13_RepaymentThenInterest ==
    [][(pc = "loop" /\ months_repaying' = months_repaying + 1) =>
          LET b == loan_balance
              p == CashRepayment(salary, b)
          IN  /\ total_repaid' = RAdd(total_repaid, p)
              /\ LET after == RMul(RSub(b, p),
                                    RAdd(One, RDivInt(params.interest_rate, 12)))
                 IN  loan_balance' = IF RLe(after, Zero) THEN Zero ELSE after]_vars

\* Two periods have run on an interest-bearing loan; in the first the cash
\* repayment was positive and below the balance, and interest was added to
\* what was left.
C13_Witness ==
    /\ Len(balances) >= 2
    /\ RLt(Zero, params.interest_rate)
    /\ RLt(total_repayments[1], total_repayments[2])
    /\ RLt(RSub(total_repayments[2], total_repayments[1]), balances[1])
    /\ RLt(RSub(balances[1], RSub(total_repayments[2], total_repayments[1])),
           balances[2])

\* The salary recorded for period i + 1, given period i: grown when period
\* i is dated in a later calendar year than the period before it (the first
\* period is dated in the start year), unchanged otherwise.
SalaryFollowsYear(i) ==
    LET previous_year == IF i = 1 THEN params.current_date.year
                         ELSE dates[i - 1].year
    IN  salaries[i + 1] = IF dates[i].year > previous_year
                          THEN _apply_salary_increase(salaries[i])
                          ELSE salaries[i]

\* C14: the salary growth rule is applied at most once per calendar year,
\* keyed by the year of the period's date: it is applied in a period exactly
\* when that period's date lies in a later calendar year than the year of
\* the last application (initially the start year), and the salary is
\* unchanged in every other period.
C14_SalaryGrowthByYear ==
    /\ [](/\ \A i \in 1..(Len(salaries) - 1) : SalaryFollowsYear(i)
          /\ \A i, j \in 1..(Len(salaries) - 1) :
                 (/\ i < j
                  /\ salaries[i + 1] # salaries[i]
                  /\ salaries[j + 1] # salaries[j]) =>
                     dates[i].year < dates[j].year
          /\ Len(salaries) >= 1 => salaries[1] = params.initial_salary)
    /\ [][(pc = "loop" /\ months_repaying' = months_repaying + 1) =>
             /\ salary' = IF current_date.year > current_year
                           THEN _apply_salary_increase(salary)
                           ELSE salary
             /\ current_year' = IF current_date.year > current_year
                                 THEN current_date.year
                                 ELSE current_year
             /\ salary' # salary => current_year' > current_year]_vars

\* A run that started in November 2023: the first increase was applied in
\* the period dated January 2024 (the third), none was applied 12 periods
\* after the start, and the second was applied in the period dated January
\* 2025 (the fifteenth).
C14_Witness ==
    /\ Len(salaries) >= 16
    /\ params.current_date.month = 11
    /\ salaries[3] = params.initial_salary
    /\ dates[3] = Date(2024, 1, 31)
    /\ salaries[4] = _apply_salary_increase(params.initial_salary)
    /\ salaries[15] = salaries[4]
    /\ dates[15] = Date(2025, 1, 31)
    /\ salaries[16] = _apply_salary_increase(salaries[15])
    /\ salaries[16] # salaries[15]

\* simulate has been entered and nothing has been recorded: no period was
\* executed and the while condition is false where it is evaluated.
ZeroLengthRun ==
    /\ months_repaying = 0
    /\ ~repaid_in_full
    /\ dates = << >> /\ salaries = << >> /\ balances = << >>
    /\ total_repayments = << >> /\ net_salary_lost_history = << >>
    /\ salary_after_tax_history = << >>
    /\ pc \in {"loop", "done"}
    /\ ~(DateLt(current_date, params.write_off_date) /\ RLt(Zero, loan_balance))

\* C15 as stated: with a write-off date not after the start date, or with a
\* negative principal, simulate executes no period: the history is empty,
\* months_repaying is 0 and repaid_in_full is false.
C15_MalformedZeroLength ==
    (/\ calls >= 1
     /\ \/ ~DateLt(params.current_date, params.write_off_date)
        \/ RLt(params.loan_value, Zero)) => ZeroLengthRun

\* C15, amended: with a write-off date not after the start date, or with a
\* negative principal and an upfront amount that is not below the principal,
\* simulate executes no period: the history is empty, months_repaying is 0
\* and repaid_in_full is false.
C15_MalformedDegrades ==
    (/\ calls >= 1
     /\ \/ ~DateLt(params.current_date, params.write_off_date)
        \/ /\ RLt(params.loan_value, Zero)
           /\ RLe(params.loan_value, params.upfront)) => ZeroLengthRun

\* simulate has returned on a negative principal with a write-off date after
\* the start date: the upfront payment took the whole (negative) principal
\* and no period ran.
C15_Witness ==
    /\ pc = "done"
    /\ calls >= 1
    /\ RLt(params.loan_value, Zero)
    /\ DateLt(params.current_date, params.write_off_date)
    /\ total_repaid = params.loan_value
    /\ loan_balance = Zero
    /\ months_repaying = 0

\* The days of the months of a common year, January first.
DaysOfMonths == <<31, 28, 31, 30, 31, 30, 31, 31, 30, 31, 30, 31>>

\* The last calendar day of month m of year y, as midnight datetime.
LastDayOf(y, m) ==
    Date(y, m, IF m = 2 /\ ((y % 4 = 0 /\ y % 100 # 0) \/ y % 400 = 0)
               THEN 29 ELSE DaysOfMonths[m])

\* C16 as stated: _get_next_month_date maps any date in month m of year y
\* to the last calendar day of the following month: month m + 1 of year y
\* when m < 12, January 31 of year y + 1 when m = 12, February 29 in leap
\* years and February 28 otherwise; the result does not depend on the
\* input's day of month and is strictly later than the input.
C16_NextMonthEnd ==
    calc.fn = "_get_next_month_date" =>
        LET y == calc.arg.year
            m == calc.arg.month
        IN  /\ m < 12 => calc.result = LastDayOf(y, m + 1)
            /\ m = 12 => calc.result = Date(y + 1, 1, 31)
            /\ m = 1 => calc.result.day = (IF y \in {2000, 2024} THEN 29 ELSE 28)
            /\ DateLt(calc.arg, calc.result)
            /\ calc.result.year * 12 + calc.result.month = y * 12 + m + 1

\* For a date before December 9999 the result is the last day of the
\* following month and later than the input.
NextMonthEndInRange ==
    (/\ calc.fn = "_get_next_month_date"
     /\ ~(calc.arg.year = 9999 /\ calc.arg.month = 12)) =>
        LET y == calc.arg.year
            m == calc.arg.month
        IN  /\ m < 12 => calc.result = LastDayOf(y, m + 1)
            /\ m = 12 => calc.result = Date(y + 1, 1, 31)
            /\ m = 1 => calc.result.day = (IF y \in {2000, 2024} THEN 29 ELSE 28)
            /\ DateLt(calc.arg, calc.result)
            /\ calc.result.year * 12 + calc.result.month = y * 12 + m + 1

\* C16, amended: for any date before December 9999 _get_next_month_date
\* returns the last calendar day of the following month (month m + 1 of
\* year y when m < 12, January 31 of year y + 1 when m = 12, February 29 in
\* leap years and February 28 otherwise), independent of the input's day of
\* month and strictly later than the input; for a date in December 9999 it
\* raises ValueError.
C16_NextMonthEndBeforeLastMonth ==
    /\ NextMonthEndInRange
    /\ (/\ calc.fn = "_get_next_month_date"
        /\ calc.arg.year = 9999
        /\ calc.arg.month = 12) => calc.result = ValueError

\* The function has been applied to the morning of 31 December of a year
\* before a leap year and has returned 31 January of the next year.
C16_Witness ==
    /\ calc.fn = "_get_next_month_date"
    /\ calc.arg = DateTime(2023, 12, 31, 8)
    /\ calc.result = Date(2024, 1, 31)

\* C17: every history entry is a snapshot taken while the loop is running,
\* before the period's changes: its date is strictly before write_off_date,
\* its balance is strictly positive, the first entry holds the start date,
\* the initial salary, balance = loan_value - min(upfront, loan_value) and
\* cumulative repaid = min(upfront, loan_value), and the recorded dates are
\* strictly increasing.
C17_HistorySnapshots ==
    /\ \A i \in 1..Len(dates) : DateLt(dates[i], params.write_off_date)
    /\ \A i \in 1..Len(balances) : RLt(Zero, balances[i])
    /\ \A i \in 1..(Len(dates) - 1) : DateLt(dates[i], dates[i + 1])
    /\ Len(dates) >= 1 =>
           LET paid_upfront == IF RLt(params.upfront, params.loan_value)
                               THEN params.upfront ELSE params.loan_value
           IN  /\ dates[1] = params.current_date
               /\ salaries[1] = params.initial_salary
               /\ balances[1] = RSub(params.loan_value, paid_upfront)
               /\ total_repayments[1] = paid_upfront
               /\ net_salary_lost_history[1] = Zero

\* Three periods were recorded for a loan with a positive upfront payment
\* below the principal.
C17_Witness ==
    /\ Len(dates) >= 3
    /\ RLt(Zero, params.upfront)
    /\ RLt(params.upfront, params.loan_value)
    /\ total_repayments[1] = params.upfront
    /\ balances[1] = RSub(params.loan_value, params.upfront)
    /\ DateLt(dates[3], params.write_off_date)

\* The cumulative repaid amount at the start of every executed period,
\* followed by its current value.
RepaidPoints == Append(total_repayments, total_repaid)

\* The interest charged in the first n executed periods at the given monthly
\* rate: in each, the rate on the balance left after the period's repayment.
RECURSIVE InterestAccrued(_, _)
InterestAccrued(n, monthly_interest_rate) ==
    IF n = 0 THEN Zero
    ELSE LET p == RSub(RepaidPoints[n + 1], RepaidPoints[n])
         IN  RAdd(InterestAccrued(n - 1, monthly_interest_rate),
                  RMul(RSub(balances[n], p), monthly_interest_rate))

\* C18 as stated: for non-negative principal, plan amounts and interest
\* rate, after the upfront payment and after every period total_repaid +
\* loan_balance is at least loan_value, with equality when interest_rate is
\* 0, and total_repaid never exceeds the principal plus the interest accrued
\* so far.
C18_RepaidPlusBalance ==
    NonNegativeAmounts =>
        LET accrued == InterestAccrued(Len(balances),
                                       RDivInt(params.interest_rate, 12))
        IN  /\ RLe(params.loan_value, RAdd(total_repaid, loan_balance))
            /\ \A i \in 1..Len(balances) :
                   /\ RLe(params.loan_value,
                          RAdd(total_repayments[i], balances[i]))
                   /\ params.interest_rate = Zero =>
                          RAdd(total_repayments[i], balances[i]) = params.loan_value
            /\ params.interest_rate = Zero =>
                   RAdd(total_repaid, loan_balance) = params.loan_value
            /\ RLe(total_repaid, RAdd(params.loan_value, accrued))

\* 2^-48: 32 times the largest relative error of one float operation.
RoundingUnit ==
    RMul(RMul(Rat(1, 4096), Rat(1, 4096)), RMul(Rat(1, 4096), Rat(1, 4096)))

\* x >= y, up to the rounding error that the float operations of the periods
\* executed so far can accumulate on amounts of the given size.
AtLeastWithin(x, y, size) ==
    RLe(RSub(y, x), RMul(RMul(size, R(months_repaying + 2)), RoundingUnit))

\* C18, amended: for non-negative principal, plan amounts and interest rate,
\* after the upfront payment and after every period total_repaid +
\* loan_balance is at least loan_value and total_repaid is at most the
\* principal plus the interest accrued so far, both up to the rounding error
\* of the float operations: (months_repaying + 2) * 2^-48 of loan_value +
\* total_repaid + accrued interest.  With interest_rate 0 total_repaid +
\* loan_balance equals loan_value up to that error.
C18_RepaidPlusBalanceRounded ==
    NonNegativeAmounts =>
        LET accrued == InterestAccrued(Len(balances),
                                       RDivInt(params.interest_rate, 12))
            size == RAdd(RAdd(params.loan_value, total_repaid), accrued)
        IN  /\ AtLeastWithin(RAdd(total_repaid, loan_balance),
                             params.loan_value, size)
            /\ \A i \in 1..Len(balances) :
                   /\ AtLeastWithin(RAdd(total_repayments[i], balances[i]),
                                    params.loan_value, size)
                   /\ params.interest_rate = Zero =>
                          AtLeastWithin(params.loan_value,
                                        RAdd(total_repayments[i], balances[i]),
                                        size)
            /\ params.interest_rate = Zero =>
                   AtLeastWithin(params.loan_value,
                                 RAdd(total_repaid, loan_balance), size)
            /\ AtLeastWithin(RAdd(params.loan_value, accrued), total_repaid,
                             size)

\* Several periods have run on an interest-bearing loan and more than the
\* principal has been repaid, with a balance still outstanding.
C18_Witness ==
    /\ NonNegativeAmounts
    /\ months_repaying >= 3
    /\ RLt(Zero, params.interest_rate)
    /\ RLt(params.loan_value, total_repaid)
    /\ RLt(Zero, loan_balance)
    /\ RLt(Zero, InterestAccrued(Len(balances),
                                 RDivInt(params.interest_rate, 12)))

=============================================================================
